---- MODULE Spec2Model ----
(***************************************************************************)
(* Verification model of the xstate-show workshop code.                    *)
(*                                                                         *)
(*  - Spec      : the machine definitions of 03.md and of the final        *)
(*                exercise file (geoposition machines, trigger machine),   *)
(*                run by the interpreter of spec section 4.2.              *)
(*  - SpecFetch : the two `transition` functions of 02.md applied to the   *)
(*                fetch machine.                                           *)
(*  - SpecHook  : the four versions of the useGeoPosition hook, mounted    *)
(*                side by side over one geolocation API.                   *)
(***************************************************************************)
EXTENDS Integers, Sequences, FiniteSets, TLC

VARIABLES
    machine,    \* name of the machine definition the interpreter runs
    status,     \* interpreter lifecycle: "Running" or "Failed"
    state,      \* state.value: the current StateId
    context,    \* state.context: [position, error]
    event,      \* the event of the last send
    pre,        \* the snapshot before the last send
    ran,        \* the actions the last send executed, in execution order
    visited,    \* the states the machine has been in
    handled,    \* the payloads of the last handled RESOLVE and REJECT events
                \* and which of the two kinds was handled last
    version,    \* 02.md: which `transition` function is in use
    fstate,     \* 02.md: the state object held by the caller of `transition`
    fevent,     \* 02.md: the event of the last call
    fpre,       \* 02.md: the state object passed to the last call
    threw,      \* 02.md: whether the last call threw instead of returning
    supported,  \* hooks: whether navigator.geolocation exists
    phase,      \* hooks: "rendered" (effect not yet run), "mounted", "unmounted"
    pc,         \* hooks: the setter call a running callback has still to make
    h1,         \* isLoading version: [position, error, isLoading]
    h2,         \* status version: [position, error, status]
    h3,         \* reducer version: [status, position, error]
    watchers,   \* navigator.geolocation: the ids of the registered watchers
    geoWatch,   \* per version, the id its effect got from watchPosition
    clears,     \* per version, how many times its cleanup called clearWatch
    arg,        \* hooks: the argument of the callback that ran last
    lastPosition, \* hooks: the last position the watcher delivered, if any
    rstate,     \* reducer alone: the state React.useReducer holds
    raction,    \* reducer alone: the action of the last dispatch
    rpre,       \* reducer alone: the state passed to the last reducer call
    rthrew      \* reducer alone: whether the last reducer call threw

machineVars == <<machine, status, state, context, event, pre, ran, visited, handled>>
fetchVars == <<version, fstate, fevent, fpre, threw>>
hookVars == <<supported, phase, pc, h1, h2, h3, watchers, geoWatch, clears,
              arg, lastPosition>>
reducerVars == <<rstate, raction, rpre, rthrew>>
vars == <<machineVars, fetchVars, hookVars, reducerVars>>

(***************************************************************************)
(* Bounds and values.                                                      *)
(***************************************************************************)
NumPositions == 2
NumErrors == 2
NumData == 2
NumOther == 1

\* JavaScript null: the initial context.position and context.error.
Null == 0

\* GeolocationPosition values delivered by the watcher.
Positions == 1 .. NumPositions
\* GeolocationPositionError values delivered by the watcher.
Errors == {-i : i \in 1 .. NumErrors}
\* Payloads of DATA_RECEIVED (02.md); Null is an event carrying no data.
Data == 1 .. NumData
\* Values of a field of the state object that `transition` does not name.
OtherValues == 0 .. NumOther

(***************************************************************************)
(* Machine definitions.  A transition is kept in xstate's normalised form  *)
(* [target, actions]: `START: 'pending'` is target 'pending' with no       *)
(* actions, `actions: 'setPosition'` is the one-element list.              *)
(***************************************************************************)
NoTransitions == <<>>
NoActions == <<>>

Go(target) == [target |-> target, actions |-> NoActions]
StateNode(on) == [entry |-> NoActions, exit |-> NoActions, on |-> on]

initialContext == [position |-> Null, error |-> Null]

\* Mutant: RESOLVE names no action.
RESOLVE_noAction == [target |-> "resolved", actions |-> NoActions]

\* part_005 lines 5-8
RESOLVE == [target |-> "resolved", actions |-> <<"setPosition">>]

\* Mutant: REJECT names the action of RESOLVE.
REJECT_setsPosition == [target |-> "rejected", actions |-> <<"setPosition">>]

\* Mutant: REJECT names no action.
REJECT_noAction == [target |-> "rejected", actions |-> NoActions]

\* part_005 lines 10-13
REJECT == [target |-> "rejected", actions |-> <<"setError">>]

\* Mutant: the START key of idle is misspelt.
geoPositionMachine_idle_typo ==
    StateNode(("STRAT" :> Go("pending"))
              @@ ("REJECT_NOT_SUPPORTED" :> Go("rejectedNotSupported")))

\* Mutant: the two targets of idle exchanged.
geoPositionMachine_idle_swapped ==
    StateNode(("START" :> Go("rejectedNotSupported"))
              @@ ("REJECT_NOT_SUPPORTED" :> Go("pending")))

\* part_005 lines 24-30
geoPositionMachine_idle ==
    StateNode(("START" :> Go("pending"))
              @@ ("REJECT_NOT_SUPPORTED" :> Go("rejectedNotSupported")))

\* Mutant: pending also handles REJECT_NOT_SUPPORTED.
geoPositionMachine_pending_notSupported ==
    StateNode(("RESOLVE" :> RESOLVE) @@ ("REJECT" :> REJECT)
              @@ ("REJECT_NOT_SUPPORTED" :> Go("rejectedNotSupported")))

\* Mutant: pending handles no event.
geoPositionMachine_pending_stuck == StateNode(NoTransitions)

\* part_005 lines 31-33
geoPositionMachine_pending ==
    StateNode(("RESOLVE" :> RESOLVE) @@ ("REJECT" :> REJECT))

\* Mutant: a RESOLVE in resolved goes back to pending.
geoPositionMachine_resolved_repending ==
    StateNode(("RESOLVE" :> [target |-> "pending", actions |-> <<"setPosition">>])
              @@ ("REJECT" :> REJECT))

\* part_005 lines 34-36
geoPositionMachine_resolved ==
    StateNode(("RESOLVE" :> RESOLVE) @@ ("REJECT" :> REJECT))

\* Mutant: rejected also handles START, going back to pending.
geoPositionMachine_rejected_restart ==
    StateNode(("RESOLVE" :> RESOLVE) @@ ("REJECT" :> REJECT)
              @@ ("START" :> Go("pending")))

\* part_005 lines 37-39
geoPositionMachine_rejected ==
    StateNode(("RESOLVE" :> RESOLVE) @@ ("REJECT" :> REJECT))

\* Mutant: rejectedNotSupported handles RESOLVE and REJECT like its siblings.
geoPositionMachine_rejectedNotSupported_retry ==
    StateNode(("RESOLVE" :> RESOLVE) @@ ("REJECT" :> REJECT))

\* part_005 line 40
geoPositionMachine_rejectedNotSupported == StateNode(NoTransitions)

\* part_005 lines 15-42: the machine of the final exercise file
geoPositionMachine ==
    [initial |-> "idle",
     context |-> initialContext,
     states  |-> [idle                 |-> geoPositionMachine_idle,
                  pending              |-> geoPositionMachine_pending,
                  resolved             |-> geoPositionMachine_resolved,
                  rejected             |-> geoPositionMachine_rejected,
                  rejectedNotSupported |-> geoPositionMachine_rejectedNotSupported]]

\* Mutant: a new position clears the recorded error.
setPosition_clearError(ctx, ev) ==
    [ctx EXCEPT !.position = ev.position, !.error = Null]

\* Mutant: a new error clears the recorded position.
setError_clearPosition(ctx, ev) ==
    [ctx EXCEPT !.error = ev.error, !.position = Null]

\* part_005 lines 44-54: the action implementations.  assign({k: f}) returns
\* the context with field k replaced by f(context, event).
setPosition(ctx, ev) == [ctx EXCEPT !.position = ev.position]

setError(ctx, ev) == [ctx EXCEPT !.error = ev.error]

\* 03.md lines 132-146: the trigger machine's actions only write to the
\* console; they leave the context alone.
ActionImplementation(action, ctx, ev) ==
    CASE action = "setPosition" -> setPosition(ctx, ev)
      [] action = "setError"    -> setError(ctx, ev)
      [] OTHER                  -> ctx

(***************************************************************************)
(* The successive definitions of 03.md.                                    *)
(***************************************************************************)
\* 03.md lines 27-37: the states only
geoPositionMachineStates ==
    [initial |-> "idle",
     context |-> initialContext,
     states  |-> [idle                 |-> StateNode(NoTransitions),
                  pending              |-> StateNode(NoTransitions),
                  resolved             |-> StateNode(NoTransitions),
                  rejected             |-> StateNode(NoTransitions),
                  rejectedNotSupported |-> StateNode(NoTransitions)]]

\* 03.md lines 44-74: the states and their events, no actions yet
geoPositionMachineEvents ==
    [initial |-> "idle",
     context |-> initialContext,
     states  |-> [idle     |-> StateNode(("START" :> Go("pending"))
                                         @@ ("REJECT_NOT_SUPPPORTED" :> Go("rejectNotSupported"))),
                  pending  |-> StateNode(("RESOLVE" :> Go("resolved"))
                                         @@ ("REJECT" :> Go("rejected"))),
                  resolved |-> StateNode(("RESOLVE" :> Go("resolved"))
                                         @@ ("REJECT" :> Go("rejected"))),
                  rejected |-> StateNode(("RESOLVE" :> Go("resolved"))
                                         @@ ("REJECT" :> Go("rejected"))),
                  rejectedNotSupported |-> StateNode(NoTransitions)]]

\* 03.md lines 178-186
RESOLVE_md == [target |-> "resolved", actions |-> <<"setPosition">>]

REJECT_md == [target |-> "rejected", actions |-> <<"setError">>]

\* 03.md lines 188-225: the entire machine as the lesson gives it
geoPositionMachineFull ==
    [initial |-> "idle",
     context |-> initialContext,
     states  |-> [idle     |-> StateNode(("START" :> Go("pending"))
                                         @@ ("REJECT_NOT_SUPPORTED" :> Go("rejectedNotSupported"))),
                  pending  |-> StateNode(("RESOLVE" :> RESOLVE_md) @@ ("REJECT" :> REJECT_md)),
                  resolved |-> StateNode(("RESOLVE" :> RESOLVE_md) @@ ("REJECT" :> REJECT_md)),
                  rejected |-> StateNode(("RESOLVE" :> RESOLVE_md) @@ ("REJECT" :> REJECT_md)),
                  rejectedNotSupported |-> StateNode(NoTransitions)]]

\* 03.md lines 111-119
triggerMachine_inactive ==
    [entry |-> NoActions,
     exit  |-> NoActions,
     on    |-> ("TRIGGER" :> [target  |-> "active",
                              actions |-> <<"activate", "sendTelemetry">>])]

\* Mutant: the entry and exit lists of active exchanged.
triggerMachine_active_swapped ==
    [entry |-> <<"notifyInactive", "sendTelemetry">>,
     exit  |-> <<"notifyActive", "sendTelemetry">>,
     on    |-> ("STOP" :> Go("inactive"))]

\* 03.md lines 120-128
triggerMachine_active ==
    [entry |-> <<"notifyActive", "sendTelemetry">>,
     exit  |-> <<"notifyInactive", "sendTelemetry">>,
     on    |-> ("STOP" :> Go("inactive"))]

\* 03.md lines 106-130: the trigger machine; it declares no context
triggerMachine ==
    [initial |-> "inactive",
     context |-> initialContext,
     states  |-> [inactive |-> triggerMachine_inactive,
                  active   |-> triggerMachine_active]]

GeoPositionMachines ==
    {"geoPositionMachineStates", "geoPositionMachineEvents",
     "geoPositionMachineFull", "geoPositionMachine"}

MachineNames == GeoPositionMachines \cup {"triggerMachine"}

Definition(name) ==
    CASE name = "geoPositionMachineStates" -> geoPositionMachineStates
      [] name = "geoPositionMachineEvents" -> geoPositionMachineEvents
      [] name = "geoPositionMachineFull"   -> geoPositionMachineFull
      [] name = "geoPositionMachine"       -> geoPositionMachine
      [] name = "triggerMachine"           -> triggerMachine

(***************************************************************************)
(* Events.                                                                 *)
(***************************************************************************)
Event(type, position, error) ==
    [type |-> type, position |-> position, error |-> error]

NoEvent == Event("none", Null, Null)

Events ==
    {Event(t, Null, Null) : t \in {"START", "REJECT_NOT_SUPPORTED",
                                   "REJECT_NOT_SUPPPORTED", "TRIGGER", "STOP"}}
    \cup {Event("RESOLVE", p, Null) : p \in Positions}
    \cup {Event("REJECT", Null, e) : e \in Errors}

(***************************************************************************)
(* The interpreter (spec section 4.2).                                     *)
(***************************************************************************)
Snapshot == [state |-> state, context |-> context]

RECURSIVE RunActions(_, _, _)
RunActions(actions, ctx, ev) ==
    IF actions = <<>> THEN ctx
    ELSE RunActions(Tail(actions), ActionImplementation(Head(actions), ctx, ev), ev)

WellFormed(def) ==
    /\ def.initial \in DOMAIN def.states
    /\ \A s \in DOMAIN def.states :
         \A t \in DOMAIN def.states[s].on :
            def.states[s].on[t].target \in DOMAIN def.states

\* The actions a transition from `source` executes, in order.
ActionsOf(def, source, transition) ==
    IF transition.target = source
    THEN transition.actions
    ELSE def.states[source].exit
         \o transition.actions
         \o def.states[transition.target].entry

NothingHandled == [position |-> Null, error |-> Null, last |-> "none"]

\* The record of handled events after `ev` was handled.
Handle(log, ev) ==
    CASE ev.type = "RESOLVE" -> [log EXCEPT !.position = ev.position, !.last = "RESOLVE"]
      [] ev.type = "REJECT"  -> [log EXCEPT !.error = ev.error, !.last = "REJECT"]
      [] OTHER               -> log

InterpreterInit ==
    /\ machine \in MachineNames
    /\ status = IF WellFormed(Definition(machine)) THEN "Running" ELSE "Failed"
    /\ state = Definition(machine).initial
    /\ context = Definition(machine).context
    /\ event = NoEvent
    /\ pre = [state |-> "none", context |-> initialContext]
    /\ ran = <<>>
    /\ visited = {Definition(machine).initial}
    /\ handled = NothingHandled

send(ev) ==
    LET def  == Definition(machine)
        node == def.states[state]
    IN  /\ status = "Running"
        /\ event' = ev
        /\ pre' = Snapshot
        /\ IF ev.type \in DOMAIN node.on
           THEN LET transition == node.on[ev.type]
                    actions    == ActionsOf(def, state, transition)
                IN  /\ state' = transition.target
                    /\ context' = RunActions(actions, context, ev)
                    /\ ran' = actions
                    /\ visited' = visited \cup {transition.target}
                    /\ handled' = Handle(handled, ev)
           ELSE /\ UNCHANGED <<state, context, visited, handled>>
                /\ ran' = <<>>
        /\ UNCHANGED <<machine, status>>

\* The variables of the interpreter while another specification runs.
InterpreterOff ==
    /\ machine = "none"
    /\ status = "Off"
    /\ state = "none"
    /\ context = initialContext
    /\ event = NoEvent
    /\ pre = [state |-> "none", context |-> initialContext]
    /\ ran = <<>>
    /\ visited = {}
    /\ handled = NothingHandled

(***************************************************************************)
(* 02.md: the fetch machine as a plain object and its `transition`         *)
(* function, without and with actions.  A JavaScript object is a function  *)
(* on its own keys: a key the source leaves out is absent from DOMAIN.     *)
(***************************************************************************)
\* 02.md lines 108-124
machine_plain ==
    [initial |-> "loading",
     states  |-> [loading |-> [on |-> ("DATA_RECEIVED" :> [target |-> "success"])],
                  success |-> <<>>]]

\* 02.md lines 151-169
machine_actions ==
    [initial |-> "loading",
     states  |-> [loading |-> [on |-> ("DATA_RECEIVED" :>
                                         [target  |-> "success",
                                          actions |-> <<[type |-> "saveData"]>>])],
                  success |-> <<>>]]

\* machine.states[state.status].on?.[event.type] ?? {target: state.status}
nextStateNode(m, st, ev) ==
    LET node == m.states[st.status]
    IN  IF "on" \in DOMAIN node /\ ev.type \in DOMAIN node.on
        THEN node.on[ev.type]
        ELSE [target |-> st.status]

Returned(st) == [threw |-> FALSE, state |-> st]
Thrown(st) == [threw |-> TRUE, state |-> st]

\* 02.md lines 131-141
transition_plain(st, ev) ==
    Returned([st EXCEPT !.status = nextStateNode(machine_plain, st, ev).target])

\* Mutant: the saveData action does not store the data.
saveData_dropped(action, nextState, ev) == nextState

\* 02.md lines 188-190: the body of the forEach callback
saveData(action, nextState, ev) ==
    IF action.type = "saveData"
    THEN [nextState EXCEPT !.data = ev.data]
    ELSE nextState

RECURSIVE forEach(_, _, _)
forEach(actions, nextState, ev) ==
    IF actions = <<>> THEN nextState
    ELSE forEach(Tail(actions), saveData(Head(actions), nextState, ev), ev)

\* 02.md lines 176-195.  `nextStateNode?.actions.forEach(...)`: nextStateNode
\* is never nullish, so `?.` guards nothing; when the node has no `actions`
\* key, `.actions` is undefined and `.forEach` throws a TypeError.
transition_actions(st, ev) ==
    LET node      == nextStateNode(machine_actions, st, ev)
        nextState == [st EXCEPT !.status = node.target]
    IN  IF "actions" \in DOMAIN node
        THEN Returned(forEach(node.actions, nextState, ev))
        ELSE Thrown(st)

transition(st, ev) ==
    IF version = "plain" THEN transition_plain(st, ev) ELSE transition_actions(st, ev)

FetchEvent(type, data) == [type |-> type, data |-> data]

NoFetchEvent == FetchEvent("none", Null)

\* RETRY stands for any event type the machine has no entry for.
FetchEvents ==
    {FetchEvent(t, d) : t \in {"DATA_RECEIVED", "RETRY"}, d \in {Null} \cup Data}

FetchStates ==
    [status : {"loading", "success"}, data : {Null} \cup Data, other : OtherValues]

NoFetchState == [status |-> "none", data |-> Null, other |-> Null]

FetchInit ==
    /\ version \in {"plain", "actions"}
    /\ fstate \in FetchStates
    /\ fevent = NoFetchEvent
    /\ fpre = NoFetchState
    /\ threw = FALSE

FetchOff ==
    /\ version = "none"
    /\ fstate = NoFetchState
    /\ fevent = NoFetchEvent
    /\ fpre = NoFetchState
    /\ threw = FALSE

\* One call `state = transition(state, event)`; a call that throws leaves
\* the caller with the state it had.
Transition ==
    \E ev \in FetchEvents :
        LET result == transition(fstate, ev)
        IN  /\ fevent' = ev
            /\ fpre' = fstate
            /\ threw' = result.threw
            /\ fstate' = result.state
            /\ UNCHANGED <<version, machineVars, hookVars, reducerVars>>

(***************************************************************************)
(* The four versions of useGeoPosition, mounted side by side over one      *)
(* navigator.geolocation: "isLoading" (part_001), "status" (part_003),     *)
(* "reducer" (01.extra-3.js) and "xstate" (part_005).  The xstate version  *)
(* keeps its state in the interpreter's variables.  A position or an error *)
(* is delivered to every registered watcher.  The useState versions make   *)
(* two setter calls per callback; `pc` holds the second one while it is    *)
(* outstanding, so that the state between the two calls is a state of the  *)
(* model.                                                                  *)
(***************************************************************************)
Versions == {"isLoading", "status", "reducer", "xstate"}

\* new Error('Geolocation is not supported')
NotSupportedError == -(NumErrors + 1)

\* Mutant: the reducer looks at the status first and handles 'success' only
\* once the watcher was started.
geoPositionReducer_stateFirst(st, a) ==
    CASE a.type = "error" ->
            Returned([st EXCEPT !.status = "REJECTED", !.error = a.error])
      [] a.type = "success" ->
            IF st.status = "IDLE"
            THEN Returned(st)
            ELSE Returned([st EXCEPT !.status = "RESOLVED", !.position = a.position])
      [] a.type = "started" ->
            Returned([st EXCEPT !.status = "PENDING"])
      [] OTHER -> Thrown(st)

\* 01.extra-3.js lines 12-38
geoPositionReducer(st, a) ==
    CASE a.type = "error" ->
            Returned([st EXCEPT !.status = "REJECTED", !.error = a.error])
      [] a.type = "success" ->
            Returned([st EXCEPT !.status = "RESOLVED", !.position = a.position])
      [] a.type = "started" ->
            Returned([st EXCEPT !.status = "PENDING"])
      [] OTHER -> Thrown(st)

dispatch(st, a) == geoPositionReducer(st, a).state

\* navigator.geolocation.watchPosition: a fresh id per registration.
WatchId(v) ==
    CASE v = "isLoading" -> 1
      [] v = "status"    -> 2
      [] v = "reducer"   -> 3
      [] v = "xstate"    -> 4

\* Mutant: the cleanup passes no watch id to clearWatch.
Clearing_none(v) == Null

\* The watch id each version's cleanup passes to clearWatch (part_001 line 28,
\* part_003 line 37, 01.extra-3.js line 63, part_005 line 73).
Clearing(v) == geoWatch[v]

Active(v) == geoWatch[v] /= Null /\ geoWatch[v] \in watchers

\* A call of a useState setter: the state field it replaces and the value.
Call(field, value) == [field |-> field, value |-> value]

Apply(h, call) == [h EXCEPT ![call.field] = call.value]

\* Mutant: each branch calls setIsLoading(false) before the data setter.
isLoading_calls_loadingFirst(kind, value) ==
    CASE kind = "unsupported" ->
            <<Call("isLoading", FALSE), Call("error", NotSupportedError)>>
      [] kind = "success" ->
            <<Call("isLoading", FALSE), Call("position", value)>>
      [] kind = "error" ->
            <<Call("isLoading", FALSE), Call("error", value)>>

\* part_001: the setter calls, in order, of the unsupported branch of the
\* effect (lines 12-13), of the success callback (lines 19-20) and of the
\* error callback (lines 23-24).
isLoading_calls(kind, value) ==
    CASE kind = "unsupported" ->
            <<Call("error", NotSupportedError), Call("isLoading", FALSE)>>
      [] kind = "success" ->
            <<Call("position", value), Call("isLoading", FALSE)>>
      [] kind = "error" ->
            <<Call("error", value), Call("isLoading", FALSE)>>

\* Mutant: each callback calls setStatus before the data setter.
status_calls_statusFirst(kind, value) ==
    CASE kind = "unsupported" ->
            <<Call("status", "REJECTED"), Call("error", NotSupportedError)>>
      [] kind = "success" ->
            <<Call("status", "RESOLVED"), Call("position", value)>>
      [] kind = "error" ->
            <<Call("status", "REJECTED"), Call("error", value)>>

\* Mutant: the error callback sets the status of the success callback.
status_calls_copied(kind, value) ==
    CASE kind = "unsupported" ->
            <<Call("error", NotSupportedError), Call("status", "REJECTED")>>
      [] kind = "success" ->
            <<Call("position", value), Call("status", "RESOLVED")>>
      [] kind = "error" ->
            <<Call("error", value), Call("status", "RESOLVED")>>

\* part_003: the setter calls, in order, of the unsupported branch of the
\* effect (lines 19-20), of the success callback (lines 28-29) and of the
\* error callback (lines 32-33).
status_calls(kind, value) ==
    CASE kind = "unsupported" ->
            <<Call("error", NotSupportedError), Call("status", "REJECTED")>>
      [] kind = "success" ->
            <<Call("position", value), Call("status", "RESOLVED")>>
      [] kind = "error" ->
            <<Call("error", value), Call("status", "REJECTED")>>

HookInit ==
    /\ supported \in BOOLEAN
    /\ phase = "rendered"
    /\ pc = "idle"
    /\ h1 = [position |-> Null, error |-> Null, isLoading |-> TRUE]
    /\ h2 = [position |-> Null, error |-> Null, status |-> "IDLE"]
    /\ h3 = [status |-> "IDLE", position |-> Null, error |-> Null]
    /\ watchers = {}
    /\ geoWatch = [v \in Versions |-> Null]
    /\ clears = [v \in Versions |-> 0]
    /\ arg = Null
    /\ lastPosition = Null

HookOff ==
    /\ supported = FALSE
    /\ phase = "off"
    /\ pc = "idle"
    /\ h1 = [position |-> Null, error |-> Null, isLoading |-> TRUE]
    /\ h2 = [position |-> Null, error |-> Null, status |-> "IDLE"]
    /\ h3 = [status |-> "IDLE", position |-> Null, error |-> Null]
    /\ watchers = {}
    /\ geoWatch = [v \in Versions |-> Null]
    /\ clears = [v \in Versions |-> 0]
    /\ arg = Null
    /\ lastPosition = Null

\* The body of React.useEffect, run once after the first render
\* (part_001 lines 10-26, part_003 lines 17-35, 01.extra-3.js lines 47-61,
\* part_005 lines 60-71).
Effect ==
    /\ phase = "rendered"
    /\ phase' = "mounted"
    /\ IF ~supported
       THEN /\ h1' = Apply(h1, isLoading_calls("unsupported", Null)[1])
            /\ h2' = Apply(h2, status_calls("unsupported", Null)[1])
            /\ pc' = "unsupported"
            /\ h3' = dispatch(h3, [type |-> "error", error |-> NotSupportedError])
            /\ send(Event("REJECT_NOT_SUPPORTED", Null, Null))
            /\ UNCHANGED <<watchers, geoWatch>>
       ELSE /\ h1' = h1
            /\ h2' = [h2 EXCEPT !.status = "PENDING"]
            /\ pc' = "idle"
            /\ h3' = dispatch(h3, [type |-> "started"])
            /\ send(Event("START", Null, Null))
            /\ geoWatch' = [v \in Versions |-> WatchId(v)]
            /\ watchers' = {WatchId(v) : v \in Versions}
    /\ UNCHANGED <<supported, clears, arg, lastPosition, fetchVars, reducerVars>>

\* The success callback of watchPosition, up to the first setter call of the
\* useState versions (part_001 line 19, part_003 line 28,
\* 01.extra-3.js line 59, part_005 line 69).
Success ==
    \E position \in Positions :
        /\ phase \in {"mounted", "unmounted"}
        /\ pc = "idle"
        /\ watchers /= {}
        /\ arg' = position
        /\ lastPosition' = position
        /\ h1' = IF Active("isLoading")
                 THEN Apply(h1, isLoading_calls("success", position)[1])
                 ELSE h1
        /\ h2' = IF Active("status")
                 THEN Apply(h2, status_calls("success", position)[1])
                 ELSE h2
        /\ pc' = IF Active("isLoading") \/ Active("status") THEN "success" ELSE "idle"
        /\ h3' = IF Active("reducer")
                 THEN dispatch(h3, [type |-> "success", position |-> position])
                 ELSE h3
        /\ IF Active("xstate")
           THEN send(Event("RESOLVE", position, Null))
           ELSE UNCHANGED machineVars
        /\ UNCHANGED <<supported, phase, watchers, geoWatch, clears, fetchVars,
                       reducerVars>>

\* The error callback of watchPosition, up to the first setter call of the
\* useState versions (part_001 line 23, part_003 line 32,
\* 01.extra-3.js line 60, part_005 line 70).
Failure ==
    \E error \in Errors :
        /\ phase \in {"mounted", "unmounted"}
        /\ pc = "idle"
        /\ watchers /= {}
        /\ arg' = error
        /\ UNCHANGED lastPosition
        /\ h1' = IF Active("isLoading")
                 THEN Apply(h1, isLoading_calls("error", error)[1])
                 ELSE h1
        /\ h2' = IF Active("status")
                 THEN Apply(h2, status_calls("error", error)[1])
                 ELSE h2
        /\ pc' = IF Active("isLoading") \/ Active("status") THEN "error" ELSE "idle"
        /\ h3' = IF Active("reducer")
                 THEN dispatch(h3, [type |-> "error", error |-> error])
                 ELSE h3
        /\ IF Active("xstate")
           THEN send(Event("REJECT", Null, error))
           ELSE UNCHANGED machineVars
        /\ UNCHANGED <<supported, phase, watchers, geoWatch, clears, fetchVars,
                       reducerVars>>

\* The second setter call of the useState versions: setIsLoading(false)
\* (part_001 lines 13, 20, 24), setStatus (part_003 lines 20, 29, 33).
SecondSetter ==
    /\ pc /= "idle"
    /\ pc' = "idle"
    /\ h1' = IF pc = "unsupported" \/ Active("isLoading")
             THEN Apply(h1, isLoading_calls(pc, arg)[2])
             ELSE h1
    /\ h2' = IF pc = "unsupported" \/ Active("status")
             THEN Apply(h2, status_calls(pc, arg)[2])
             ELSE h2
    /\ UNCHANGED <<supported, phase, h3, watchers, geoWatch, clears,
                   arg, lastPosition, machineVars, fetchVars, reducerVars>>

\* Unmount: React runs the cleanup each effect returned; an effect that
\* returned early (geolocation not supported) returned none
\* (part_001 line 28, part_003 line 37, 01.extra-3.js line 63, part_005 line 73).
Cleanup ==
    /\ phase = "mounted"
    /\ pc = "idle"
    /\ phase' = "unmounted"
    /\ IF supported
       THEN /\ watchers' = watchers \ {Clearing(v) : v \in Versions}
            /\ clears' = [v \in Versions |-> clears[v] + 1]
       ELSE UNCHANGED <<watchers, clears>>
    /\ UNCHANGED <<supported, pc, h1, h2, h3, geoWatch, arg, lastPosition,
                   machineVars, fetchVars, reducerVars>>

(***************************************************************************)
(* The reducer on its own: React.useReducer given any action.              *)
(***************************************************************************)
ReducerAction(type, position, error) ==
    [type |-> type, position |-> position, error |-> error]

NoAction == ReducerAction("none", Null, Null)

\* 'reset' and 'START' stand for any type the reducer has no case for.
ReducerActions ==
    {ReducerAction(t, Null, Null) : t \in {"started", "reset", "START"}}
    \cup {ReducerAction("success", p, Null) : p \in Positions}
    \cup {ReducerAction("error", Null, e) : e \in Errors \cup {NotSupportedError}}

\* 01.extra-3.js lines 41-45
ReducerInit ==
    /\ rstate = [status |-> "IDLE", position |-> Null, error |-> Null]
    /\ raction = NoAction
    /\ rpre = [status |-> "none", position |-> Null, error |-> Null]
    /\ rthrew = FALSE

ReducerOff ==
    /\ rstate = [status |-> "none", position |-> Null, error |-> Null]
    /\ raction = NoAction
    /\ rpre = [status |-> "none", position |-> Null, error |-> Null]
    /\ rthrew = FALSE

\* dispatch(a): React calls the reducer; a call that throws produces no new
\* state.
Dispatch ==
    \E a \in ReducerActions :
        LET result == geoPositionReducer(rstate, a)
        IN  /\ raction' = a
            /\ rpre' = rstate
            /\ rthrew' = result.threw
            /\ rstate' = result.state
            /\ UNCHANGED <<machineVars, fetchVars, hookVars>>

(***************************************************************************)
(* The App components: which branch renders a given hook state.            *)
(* "undefined" is falling through every `if`; "TypeError" is reading       *)
(* `.coords` or `.message` of null.                                        *)
(***************************************************************************)
\* Mutant: the error branch is tested before the position branch.
App_isLoading_errorFirst(h) ==
    IF h.isLoading THEN "loading"
    ELSE IF h.error /= Null THEN "error"
    ELSE IF h.position /= Null THEN "position"
    ELSE "undefined"

\* part_001 lines 34-58
App_isLoading(h) ==
    IF h.isLoading THEN "loading"
    ELSE IF h.position /= Null THEN "position"
    ELSE IF h.error /= Null THEN "error"
    ELSE "undefined"

\* part_003 lines 43-67
App_status(h) ==
    IF h.status = "IDLE" \/ h.status = "PENDING" THEN "loading"
    ELSE IF h.status = "RESOLVED"
    THEN (IF h.position = Null THEN "TypeError" ELSE "position")
    ELSE IF h.status = "REJECTED"
    THEN (IF h.error = Null THEN "TypeError" ELSE "error")
    ELSE "undefined"

\* 01.extra-3.js lines 69-93
App_reducer(h) ==
    IF h.status = "IDLE" \/ h.status = "PENDING" THEN "loading"
    ELSE IF h.status = "RESOLVED"
    THEN (IF h.position = Null THEN "TypeError" ELSE "position")
    ELSE IF h.status = "REJECTED"
    THEN (IF h.error = Null THEN "TypeError" ELSE "error")
    ELSE "undefined"

\* part_005 lines 79-111
App_xstate(value, ctx) ==
    IF value = "rejectedNotSupported" THEN "notSupported"
    ELSE IF value = "idle" \/ value = "pending" THEN "loading"
    ELSE IF value = "resolved"
    THEN (IF ctx.position = Null THEN "TypeError" ELSE "position")
    ELSE IF value = "rejected"
    THEN (IF ctx.error = Null THEN "TypeError" ELSE "error")
    ELSE "undefined"

(***************************************************************************)
(* Specifications.                                                         *)
(***************************************************************************)
Send == \E ev \in Events : send(ev) /\ UNCHANGED <<fetchVars, hookVars, reducerVars>>

Init == InterpreterInit /\ FetchOff /\ HookOff /\ ReducerOff

Next == Send

Spec == Init /\ [][Next]_vars

InitFetch == InterpreterOff /\ FetchInit /\ HookOff /\ ReducerOff

NextFetch == Transition

SpecFetch == InitFetch /\ [][NextFetch]_vars

InitHook ==
    InterpreterInit /\ machine = "geoPositionMachine" /\ FetchOff /\ HookInit /\ ReducerOff

NextHook == Effect \/ Success \/ Failure \/ SecondSetter \/ Cleanup

SpecHook == InitHook /\ [][NextHook]_vars

\* The hooks under the scheduling the code relies on: React runs the effect
\* after the first commit, and a callback that has made its first setter
\* call runs on to its second.  Nothing obliges the browser to invoke a
\* callback, or the component to unmount.
SpecHookLive ==
    InitHook /\ [][NextHook]_vars /\ WF_vars(Effect) /\ WF_vars(SecondSetter)

InitReducer == InterpreterOff /\ FetchOff /\ HookOff /\ ReducerInit

NextReducer == Dispatch

SpecReducer == InitReducer /\ [][NextReducer]_vars

(***************************************************************************)
(* Claims about the machine definitions (checked under Spec).              *)
(***************************************************************************)
\* The geoposition machine: the definition of the final exercise file and
\* the identical full definition of 03.md.
IsGeo == machine \in {"geoPositionMachine", "geoPositionMachineFull"}
Sent == event /= NoEvent
RetryStates == {"pending", "resolved", "rejected"}

\* C1: in the geoposition machine REJECT_NOT_SUPPORTED sent in idle leads to
\* rejectedNotSupported, and a send in rejectedNotSupported, whatever the
\* event, leaves the state and the context (position, error) unchanged.
C1_RejectedNotSupportedTerminal ==
    (IsGeo /\ Sent) =>
        /\ (pre.state = "idle" /\ event.type = "REJECT_NOT_SUPPORTED")
              => state = "rejectedNotSupported"
        /\ pre.state = "rejectedNotSupported"
              => (state = "rejectedNotSupported" /\ context = pre.context)

C1_Witness ==
    /\ IsGeo
    /\ pre.state = "rejectedNotSupported"
    /\ event.type = "RESOLVE"
    /\ state = "rejectedNotSupported"

\* C2: RESOLVE carrying position p sent in pending, resolved or rejected
\* leads to resolved with context.position = p and context.error unchanged,
\* the self-transition resolved -> resolved included.
C2_ResolveSetsPosition ==
    (IsGeo /\ event.type = "RESOLVE" /\ pre.state \in RetryStates) =>
        /\ state = "resolved"
        /\ context.position = event.position
        /\ context.error = pre.context.error

C2_Witness ==
    /\ IsGeo
    /\ event.type = "RESOLVE"
    /\ pre.state = "resolved"
    /\ pre.context.error /= Null
    /\ pre.context.position /= event.position
    /\ context.position = event.position

\* C3: REJECT carrying error e sent in pending, resolved or rejected leads
\* to rejected with context.error = e and context.position unchanged.
C3_RejectSetsError ==
    (IsGeo /\ event.type = "REJECT" /\ pre.state \in RetryStates) =>
        /\ state = "rejected"
        /\ context.error = event.error
        /\ context.position = pre.context.position

C3_Witness ==
    /\ IsGeo
    /\ event.type = "REJECT"
    /\ pre.state = "resolved"
    /\ pre.context.position /= Null
    /\ state = "rejected"
    /\ context.position = pre.context.position

\* The (state, event type) pairs the claim lists as having no entry in `on`.
C4_NoEntry(s, t) ==
    \/ s = "idle" /\ t \in {"RESOLVE", "REJECT"}
    \/ s \in RetryStates /\ t \in {"START", "REJECT_NOT_SUPPORTED"}
    \/ s = "rejectedNotSupported"
           /\ t \in {"START", "RESOLVE", "REJECT", "REJECT_NOT_SUPPORTED"}

\* C4: an event whose type has no entry in the current state's `on` map
\* leaves the state and the whole context unchanged, runs no action and
\* raises no error.
C4_UnhandledIsNoOp ==
    (IsGeo /\ Sent /\ C4_NoEntry(pre.state, event.type)) =>
        /\ state = pre.state
        /\ context = pre.context
        /\ ran = <<>>
        /\ status = "Running"

C4_Witness ==
    /\ IsGeo
    /\ pre.state = "rejected"
    /\ event.type = "START"
    /\ state = "rejected"
    /\ context.position /= Null

\* C5: START in idle leads to pending, REJECT_NOT_SUPPORTED in idle leads to
\* rejectedNotSupported; both run no action, the context stays initial.
C5_IdleTransitions ==
    (IsGeo /\ Sent /\ pre.state = "idle") =>
        /\ event.type = "START" => state = "pending"
        /\ event.type = "REJECT_NOT_SUPPORTED" => state = "rejectedNotSupported"
        /\ event.type \in {"START", "REJECT_NOT_SUPPORTED"}
              => (ran = <<>> /\ context = [position |-> Null, error |-> Null])

C5_Witness ==
    /\ IsGeo
    /\ pre.state = "idle"
    /\ event.type = "START"
    /\ state = "pending"

\* C6: every geoposition machine definition is well formed: `initial` and
\* every transition target are keys of `states`.
C6_EveryDefinitionWellFormed ==
    machine \in GeoPositionMachines => WellFormed(Definition(machine))

InSeq(x, seq) == \E i \in 1 .. Len(seq) : seq[i] = x

\* C9: in the trigger machine TRIGGER in inactive runs activate,
\* sendTelemetry, notifyActive, sendTelemetry in that order, STOP in active
\* runs notifyInactive, sendTelemetry and nothing else; the entry (exit)
\* actions of active run exactly on the transitions that enter (exit) it.
C9_ActionOrder ==
    (machine = "triggerMachine" /\ Sent) =>
        /\ (pre.state = "inactive" /\ event.type = "TRIGGER") =>
              /\ state = "active"
              /\ ran = <<"activate", "sendTelemetry", "notifyActive", "sendTelemetry">>
        /\ (pre.state = "active" /\ event.type = "STOP") =>
              /\ state = "inactive"
              /\ ran = <<"notifyInactive", "sendTelemetry">>
        /\ InSeq("notifyActive", ran) <=> (pre.state /= "active" /\ state = "active")
        /\ InSeq("notifyInactive", ran) <=> (pre.state = "active" /\ state /= "active")
        /\ (state = pre.state) => ran = <<>>

C9_Witness ==
    /\ machine = "triggerMachine"
    /\ pre.state = "inactive"
    /\ event.type = "TRIGGER"
    /\ state = "active"
    /\ Len(ran) = 4

(***************************************************************************)
(* Claims about the `transition` functions of 02.md (checked under         *)
(* SpecFetch).                                                             *)
(***************************************************************************)
Called == fevent /= NoFetchEvent

\* The (status, event type) pairs with no entry in machine.states[status].on.
C7_NoEntry(s, t) ==
    \/ s = "loading" /\ t /= "DATA_RECEIVED"
    \/ s = "success"

\* C7: both versions of `transition` stay on the current state when the
\* event is not handled: the call returns normally, with the input status
\* and the other fields unchanged.
C7_UnhandledStays ==
    (Called /\ C7_NoEntry(fpre.status, fevent.type)) =>
        /\ ~threw
        /\ fstate = fpre

\* C8: `transition` applied to status loading and DATA_RECEIVED returns
\* status success, in the version with actions also data = event.data; all
\* other fields of the input state are carried over.
C8_DataReceived ==
    (Called /\ fpre.status = "loading" /\ fevent.type = "DATA_RECEIVED") =>
        /\ ~threw
        /\ fstate.status = "success"
        /\ fstate.other = fpre.other
        /\ version = "actions" => fstate.data = fevent.data
        /\ version = "plain" => fstate.data = fpre.data

C8_Witness ==
    /\ version = "actions"
    /\ fpre.status = "loading"
    /\ fevent.type = "DATA_RECEIVED"
    /\ fevent.data /= fpre.data
    /\ fstate.data = fevent.data
    /\ fstate.status = "success"

(***************************************************************************)
(* Claims about the useGeoPosition hooks (checked under SpecHook).         *)
(***************************************************************************)
C10_Lifecycle ==
    \A v \in Versions :
        \* registered only when geolocation is supported
        /\ geoWatch[v] /= Null => supported
        /\ watchers /= {} => supported
        \* not supported: no watcher, no teardown
        /\ ~supported => (geoWatch[v] = Null /\ clears[v] = 0)
        \* no teardown before the unmount
        /\ phase /= "unmounted" => clears[v] = 0
        \* unmounted: the registered watcher was cleared, exactly once
        /\ (phase = "unmounted" /\ geoWatch[v] /= Null)
              => (clears[v] = 1 /\ geoWatch[v] \notin watchers)

C10_QuietAfterTeardown ==
    phase = "unmounted" => UNCHANGED <<h1, h2, h3, state, context>>

\* C10: in every version of useGeoPosition the watcher is registered only
\* when geolocation is supported; a registered watcher is cleared exactly
\* once, at unmount; when geolocation is not supported nothing is registered
\* and nothing is cleared; after the teardown no success or error callback
\* runs, so state and context no longer change.
C10_WatcherTornDownOnce ==
    [](C10_Lifecycle) /\ [][C10_QuietAfterTeardown]_vars

C10_Witness ==
    /\ supported
    /\ phase = "unmounted"
    /\ \A v \in Versions : clears[v] = 1 /\ geoWatch[v] /= Null
    /\ watchers = {}
    /\ state = "rejected"
    /\ context.position /= Null
    /\ h3.status = "REJECTED"

C12_NotSupportedApartFromRejected ==
    IsGeo =>
        /\ (Sent /\ state = "rejectedNotSupported")
              => pre.state \in {"idle", "rejectedNotSupported"}
        /\ ~({"rejected", "rejectedNotSupported"} \subseteq visited)
        /\ "pending" \in visited => "rejectedNotSupported" \notin visited
        /\ state = "idle" => visited = {"idle"}

C12_Witness ==
    /\ IsGeo
    /\ visited = {"idle", "pending", "resolved", "rejected"}
    /\ event.type = "REJECT_NOT_SUPPORTED"
    /\ state = "rejected"

\* C16: in every reachable state of the geoposition machine, in idle,
\* pending and rejectedNotSupported the context is still the initial one
\* (position = null, error = null): no RESOLVE or REJECT has been handled.
C16_ContextInitialUntilResolved ==
    (IsGeo /\ state \in {"idle", "pending", "rejectedNotSupported"}) =>
        /\ context = [position |-> Null, error |-> Null]
        /\ handled.last = "none"

C16_Witness ==
    /\ IsGeo
    /\ state = "rejectedNotSupported"
    /\ event.type = "RESOLVE"
    /\ event.position /= Null
    /\ context.position = Null

\* C20: after any sequence of events context.position is the position of
\* the most recent handled RESOLVE (null if none), context.error the error
\* of the most recent handled REJECT (null if none), and the machine is in
\* resolved or rejected according to which of the two was handled last.
C20_ContextIsLastHandled ==
    IsGeo =>
        /\ context.position = handled.position
        /\ context.error = handled.error
        /\ handled.last = "RESOLVE" => state = "resolved"
        /\ handled.last = "REJECT" => state = "rejected"
        /\ handled.last = "none" => state \notin {"resolved", "rejected"}

C20_Witness ==
    /\ IsGeo
    /\ state = "rejected"
    /\ handled.last = "REJECT"
    /\ handled.position \in Positions
    /\ handled.error \in Errors
    /\ event.type = "START"
    /\ context = [position |-> handled.position, error |-> handled.error]

(***************************************************************************)
(* Claims comparing the versions of the hook (checked under SpecHook).     *)
(***************************************************************************)
Corresponds(value, st) ==
    \/ value = "idle" /\ st = "IDLE"
    \/ value = "pending" /\ st = "PENDING"
    \/ value = "resolved" /\ st = "RESOLVED"
    \/ value = "rejected" /\ st = "REJECTED"

\* C14: with geolocation supported the xstate version and the reducer
\* version agree after every event: the machine state corresponds to the
\* reducer status and context.position, context.error equal the reducer's
\* position and error.  Without support they differ: the machine ends in
\* rejectedNotSupported with error = null, the reducer in REJECTED with a
\* non-null error.
C14_XstateMatchesReducer ==
    /\ supported =>
          /\ Corresponds(state, h3.status)
          /\ context.position = h3.position
          /\ context.error = h3.error
          /\ phase /= "rendered" => state /= "idle"
    /\ (~supported /\ phase /= "rendered") =>
          /\ state = "rejectedNotSupported"
          /\ context.error = Null
          /\ h3.status = "REJECTED"
          /\ h3.error /= Null

C14_Witness ==
    /\ supported
    /\ event.type = "REJECT"
    /\ state = "rejected"
    /\ h3.status = "REJECTED"
    /\ context.position /= Null
    /\ context.error = h3.error
    /\ h3.error /= Null

\* C15: the status version and the reducer version hold the same (status,
\* position, error) whenever no callback is between its two setter calls,
\* for either mount outcome and every sequence of watcher callbacks.
C15_StatusMatchesReducer ==
    pc = "idle" =>
        /\ h2.status = h3.status
        /\ h2.position = h3.position
        /\ h2.error = h3.error

C15_Witness ==
    /\ pc = "idle"
    /\ phase = "mounted"
    /\ h2.status = "REJECTED"
    /\ h2.position /= Null
    /\ h2.error \in Errors
    /\ h3.status = "REJECTED"

\* C17: in the xstate and reducer versions driven by their hooks, resolved
\* (RESOLVED) implies a non-null position and rejected (REJECTED) a non-null
\* error, so App never reads a field of null.
C17_DataPresentWhenShown ==
    /\ state = "resolved" => context.position /= Null
    /\ state = "rejected" => context.error /= Null
    /\ h3.status = "RESOLVED" => h3.position /= Null
    /\ h3.status = "REJECTED" => h3.error /= Null
    /\ App_xstate(state, context) /= "TypeError"
    /\ App_reducer(h3) /= "TypeError"

C17_Witness ==
    /\ state = "resolved"
    /\ context.position \in Positions
    /\ context.error \in Errors
    /\ h3.status = "RESOLVED"
    /\ App_xstate(state, context) = "position"
    /\ App_reducer(h3) = "position"

\* C18: in the status version, also between the two setter calls of a
\* callback, status = RESOLVED implies a non-null position and status =
\* REJECTED a non-null error: the data setter runs before setStatus.
C18_StatusNeverAheadOfData ==
    /\ h2.status = "RESOLVED" => h2.position /= Null
    /\ h2.status = "REJECTED" => h2.error /= Null
    /\ App_status(h2) /= "TypeError"

C18_Witness ==
    /\ pc = "success"
    /\ h2.status = "PENDING"
    /\ h2.position = arg
    /\ arg \in Positions

\* C19: in the xstate hook no watcher event is dropped as unhandled: START
\* is sent before the watcher is registered, so every RESOLVE or REJECT a
\* callback sends finds the machine in pending, resolved or rejected and
\* updates the context.
C19_NoWatcherEventDropped ==
    /\ watchers /= {} => state \in RetryStates
    /\ event.type \in {"RESOLVE", "REJECT"} =>
          /\ pre.state \in RetryStates
          /\ ran /= <<>>
          /\ event.type = "RESOLVE" => context.position = event.position
          /\ event.type = "REJECT" => context.error = event.error

C19_Witness ==
    /\ event.type = "RESOLVE"
    /\ pre.state = "pending"
    /\ state = "resolved"
    /\ context.position = event.position

\* C21: the xstate hook does not stay loading forever: the mount effect
\* takes the machine out of idle, to rejectedNotSupported when geolocation
\* is unsupported and to pending otherwise; and when the watcher invokes a
\* callback the machine reaches resolved or rejected, so that from some
\* point on the state is one of resolved, rejected, rejectedNotSupported.
CallbackInvoked == arg /= Null

Settled == state \in {"resolved", "rejected", "rejectedNotSupported"}

C21_NotLoadingForever ==
    /\ <>(state /= "idle")
    /\ ~supported => <>(state = "rejectedNotSupported")
    /\ supported => <>(state = "pending")
    /\ <>CallbackInvoked => <>(state \in {"resolved", "rejected"})
    /\ (~supported \/ <>CallbackInvoked) => <>[]Settled

C21_Witness ==
    /\ supported
    /\ phase = "mounted"
    /\ pre.state = "pending"
    /\ CallbackInvoked
    /\ state \in {"resolved", "rejected"}

\* C22: in each version of App every state reachable through its hook,
\* also between the setter calls of a callback, is rendered by one of the
\* App's branches: App never falls through every `if` and returns
\* undefined.  In the isLoading version the state isLoading = false,
\* position = null, error = null is unreachable.
C22_EveryStateRendered ==
    /\ App_isLoading(h1) \in {"loading", "position", "error"}
    /\ App_status(h2) \in {"loading", "position", "error"}
    /\ App_reducer(h3) \in {"loading", "position", "error"}
    /\ App_xstate(state, context) \in {"notSupported", "loading", "position", "error"}
    /\ ~(h1.isLoading = FALSE /\ h1.position = Null /\ h1.error = Null)

C22_Witness ==
    /\ pc = "error"
    /\ h1.isLoading = TRUE
    /\ h1.position = Null
    /\ h1.error = arg
    /\ arg \in Errors
    /\ App_isLoading(h1) = "loading"
    /\ App_status(h2) = "loading"
    /\ App_reducer(h3) = "error"
    /\ App_xstate(state, context) = "error"

(***************************************************************************)
(* Claims about geoPositionReducer (checked under SpecReducer).            *)
(***************************************************************************)
Dispatched == raction /= NoAction

\* C13: geoPositionReducer decides on the action type alone: from every
\* status 'started' yields PENDING, 'success' yields RESOLVED with the
\* action's position, 'error' yields REJECTED with the action's error, the
\* other fields carried over; any other type throws and yields no new state.
C13_ReducerByActionType ==
    Dispatched =>
        /\ raction.type = "started" =>
              /\ ~rthrew
              /\ rstate = [status |-> "PENDING", position |-> rpre.position,
                           error |-> rpre.error]
        /\ raction.type = "success" =>
              /\ ~rthrew
              /\ rstate = [status |-> "RESOLVED", position |-> raction.position,
                           error |-> rpre.error]
        /\ raction.type = "error" =>
              /\ ~rthrew
              /\ rstate = [status |-> "REJECTED", position |-> rpre.position,
                           error |-> raction.error]
        /\ raction.type \notin {"started", "success", "error"} =>
              /\ rthrew
              /\ rstate = rpre

C13_Witness ==
    /\ rpre.status = "IDLE"
    /\ raction.type = "success"
    /\ rstate.status = "RESOLVED"
    /\ rstate.position = raction.position

====
